---------------------------- MODULE Spec2Model ----------------------------
(***************************************************************************)
(* A model of one IPU3 camera of libcamera: the Camera state machine, the  *)
(* IPU3 pipeline handler (src/libcamera/pipeline/ipu3/ipu3.cpp), the CIO2  *)
(* output video device it drives and the application slots of the capture  *)
(* test (test/camera/capture.cpp).                                         *)
(*                                                                         *)
(* The pipeline handler and the test are translated from their source.     *)
(* Camera, the PipelineHandler base class and V4L2Device are not part of   *)
(* the sources at hand; they are modelled from the specification text and  *)
(* are marked "spec" in the comments below.                                *)
(***************************************************************************)
EXTENDS Integers, Sequences, FiniteSets, TLC

(***************************************************************************)
(* Bounds of the model.                                                    *)
(***************************************************************************)
\* Requests the application creates in one behaviour.
MaxReq == 3
\* cfg.bufferCount the application asks for (streamConfiguration proposes 4).
BufferCount == 2

\* The requests of a sustained capture: enough for more than twice
\* bufferCount completions with bufferCount requests in flight.
SustainedRequests == 3 * BufferCount + 1

\* The Request objects a behaviour can create.
RequestIds ==
    1..(IF MaxReq > SustainedRequests THEN MaxReq ELSE SustainedRequests)

\* unsigned int values are written as the signed 32-bit integer with the same
\* bits; ~0, the largest of them, is then -1.  The sizes of the model keep
\* every product and difference below 2^31, where the two arithmetics agree.
AllOnes == -1

\* a < b as unsigned int.
ULess(a, b) ==
    IF (a < 0) = (b < 0) THEN a < b ELSE b < 0

(***************************************************************************)
(* Sensor formats: sensor_->formats(0) is a std::map from media bus code   *)
(* to a vector of SizeRange.  It is modelled as the sequence of its        *)
(* entries in the map's iteration order; a size is <<maxWidth, maxHeight>>.*)
(***************************************************************************)
Fmt(w, h, c) == [width |-> w, height |-> h, code |-> c]

NoFormat == Fmt(0, 0, "0")

\* CIO2Device::mediaBusToFormat: the four raw Bayer codes map to their IPU3
\* packed formats, any other code yields -EINVAL.
mediaBusToFormat(code) ==
    CASE code = "SBGGR10_1X10" -> "IPU3_SBGGR10"
      [] code = "SGBRG10_1X10" -> "IPU3_SGBRG10"
      [] code = "SGRBG10_1X10" -> "IPU3_SGRBG10"
      [] code = "SRGGB10_1X10" -> "IPU3_SRGGB10"
      [] OTHER -> "EINVAL"

\* The (code, size) pairs in the order the nested loops visit them.
RECURSIVE Flat(_)
Flat(sf) ==
    IF sf = <<>> THEN <<>>
    ELSE LET e == Head(sf)
         IN [i \in 1..Len(e.sizes) |->
                 [code |-> e.code, maxWidth |-> e.sizes[i][1],
                  maxHeight |-> e.sizes[i][2]]] \o Flat(Tail(sf))

\* The loop of CIO2Device::init that caches the maximum size.  mbusCode_
\* receives the converted pixel format, as in the source.
RECURSIVE InitLoop(_, _)
InitLoop(flat, acc) ==
    IF flat = <<>> THEN acc
    ELSE LET s == Head(flat)
             mbusCode == mediaBusToFormat(s.code)
         IN IF mbusCode = "EINVAL" THEN InitLoop(Tail(flat), acc)
            ELSE IF acc.width < s.maxWidth /\ acc.height < s.maxHeight
                 THEN InitLoop(Tail(flat), Fmt(s.maxWidth, s.maxHeight, mbusCode))
                 ELSE InitLoop(Tail(flat), acc)

\* Mutant: the largest width and the largest height are cached, each on
\* its own.
RECURSIVE InitLoop_perDimension(_, _)
InitLoop_perDimension(flat, acc) ==
    IF flat = <<>> THEN acc
    ELSE LET s == Head(flat)
             mbusCode == mediaBusToFormat(s.code)
         IN IF mbusCode = "EINVAL" THEN InitLoop_perDimension(Tail(flat), acc)
            ELSE InitLoop_perDimension(
                     Tail(flat),
                     Fmt(IF acc.width < s.maxWidth THEN s.maxWidth
                         ELSE acc.width,
                         IF acc.height < s.maxHeight THEN s.maxHeight
                         ELSE acc.height,
                         mbusCode))

CIO2Device_init_perDimension(sf) ==
    LET m == InitLoop_perDimension(Flat(sf), NoFormat)
    IN IF m.width = 0 THEN [ret |-> "ENODEV", max |-> m]
       ELSE [ret |-> "OK", max |-> m]

\* CIO2Device::init, the part after the sensor is opened: maxSize_ and
\* mbusCode_ (as one record), "ENODEV" when no supported format was found.
CIO2Device_init(sf) ==
    LET m == InitLoop(Flat(sf), NoFormat)
    IN IF m.width = 0 THEN [ret |-> "ENODEV", max |-> m]
       ELSE [ret |-> "OK", max |-> m]

\* The selection loop of CIO2Device::configure; acc is (best, sensorFormat).
RECURSIVE SelectLoop(_, _, _)
SelectLoop(flat, cfg, acc) ==
    IF flat = <<>> THEN acc
    ELSE LET s == Head(flat)
             imageSize == cfg.width * cfg.height
             diff == s.maxWidth * s.maxHeight - imageSize
         IN IF mediaBusToFormat(s.code) = "EINVAL"
            THEN SelectLoop(Tail(flat), cfg, acc)
            ELSE IF s.maxWidth < cfg.width \/ s.maxHeight < cfg.height
            THEN SelectLoop(Tail(flat), cfg, acc)
            ELSE IF ~ULess(diff, acc.best)
            THEN SelectLoop(Tail(flat), cfg, acc)
            ELSE SelectLoop(Tail(flat), cfg,
                            [best |-> diff,
                             fmt |-> Fmt(s.maxWidth, s.maxHeight, s.code)])

\* Mutant: on equal excess the size enumerated last is kept.
RECURSIVE SelectLoop_lastOnTie(_, _, _)
SelectLoop_lastOnTie(flat, cfg, acc) ==
    IF flat = <<>> THEN acc
    ELSE LET s == Head(flat)
             diff == s.maxWidth * s.maxHeight - cfg.width * cfg.height
         IN IF mediaBusToFormat(s.code) = "EINVAL"
               \/ s.maxWidth < cfg.width \/ s.maxHeight < cfg.height
               \/ ULess(acc.best, diff)
            THEN SelectLoop_lastOnTie(Tail(flat), cfg, acc)
            ELSE SelectLoop_lastOnTie(Tail(flat), cfg,
                                      [best |-> diff,
                                       fmt |-> Fmt(s.maxWidth, s.maxHeight,
                                                   s.code)])

SelectSensorFormat_lastOnTie(sf, cfg) ==
    SelectLoop_lastOnTie(Flat(sf), cfg,
                         [best |-> AllOnes, fmt |-> NoFormat]).fmt

SelectSensorFormat(sf, cfg) ==
    SelectLoop(Flat(sf), cfg, [best |-> AllOnes, fmt |-> NoFormat]).fmt

(***************************************************************************)
(* The device nodes a configuration touches.  formats maps each to the     *)
(* format (or rectangle) last applied to it.                               *)
(***************************************************************************)
Nodes == {"sensor", "csi2", "cio2", "imgu_input", "imgu_crop", "imgu_compose",
          "imgu_pad_input", "imgu_pad_output", "imgu_output",
          "imgu_pad_viewfinder", "imgu_viewfinder", "imgu_pad_stat"}

\* Applies the device calls of `steps` in order; call number failAt - base
\* fails (failAt = 0: none does) and ends the sequence with its error.
RECURSIVE ApplySteps(_, _, _, _)
ApplySteps(fm, steps, base, failAt) ==
    IF steps = <<>> THEN [ret |-> "OK", fm |-> fm]
    ELSE IF failAt = base + 1 THEN [ret |-> "EIO", fm |-> fm]
    ELSE ApplySteps([fm EXCEPT ![Head(steps)[1]] = Head(steps)[2]],
                    Tail(steps), base + 1, failAt)

\* CIO2Device::configure: device calls 1..3.
CIO2Device_configure(fm, sf, cfg, failAt) ==
    LET sensorFormat == SelectSensorFormat(sf, cfg)
        outputFormat == Fmt(sensorFormat.width, sensorFormat.height,
                            mediaBusToFormat(sensorFormat.code))
        r == ApplySteps(fm, << <<"sensor", sensorFormat>>,
                               <<"csi2", sensorFormat>>,
                               <<"cio2", outputFormat>> >>, 0, failAt)
    IN [ret |-> r.ret, fm |-> r.fm, out |-> outputFormat]

\* ImgUDevice::configureInput: device calls 4..7.
ImgUDevice_configureInput(fm, cfg, inputFormat, failAt) ==
    LET rect == Fmt(inputFormat.width, inputFormat.height, "rect")
    IN ApplySteps(fm, << <<"imgu_input", inputFormat>>,
                         <<"imgu_crop", rect>>,
                         <<"imgu_compose", rect>>,
                         <<"imgu_pad_input", Fmt(cfg.width, cfg.height, "FIXED")>> >>,
                  3, failAt)

\* ImgUDevice::configureOutput for the pad `pad` and the video node `dev`
\* (dev = "" for the stat node, which gets no device format).
ImgUDevice_configureOutput(fm, pad, dev, cfg, base, failAt) ==
    ApplySteps(fm,
               << <<pad, Fmt(cfg.width, cfg.height, "FIXED")>> >> \o
               (IF dev = "" THEN <<>>
                ELSE << <<dev, Fmt(cfg.width, cfg.height, "NV12")>> >>),
               base, failAt)

\* The device calls of configureStreams once the size is accepted: the CIO2
\* unit, the ImgU input, then the ImgU output, viewfinder and stat nodes.
configureDevices(fm, sf, cfg, failAt) ==
    LET c == CIO2Device_configure(fm, sf, cfg, failAt)
    IN IF c.ret # "OK" THEN [ret |-> c.ret, fm |-> c.fm]
       ELSE LET i == ImgUDevice_configureInput(c.fm, cfg, c.out, failAt)
            IN IF i.ret # "OK" THEN i
               ELSE LET o == ImgUDevice_configureOutput(
                                 i.fm, "imgu_pad_output", "imgu_output",
                                 cfg, 7, failAt)
                    IN IF o.ret # "OK" THEN o
                       ELSE LET v == ImgUDevice_configureOutput(
                                         o.fm, "imgu_pad_viewfinder",
                                         "imgu_viewfinder", cfg, 9, failAt)
                            IN IF v.ret # "OK" THEN v
                               ELSE ImgUDevice_configureOutput(
                                        v.fm, "imgu_pad_stat", "", cfg,
                                        11, failAt)

\* Mutant: the alignment check tests the width only.
configureStreams_widthOnly(fm, sf, max, cfg, failAt) ==
    IF cfg.width % 8 # 0 THEN [ret |-> "EINVAL", fm |-> fm]
    ELSE IF cfg.width > max.width \/ cfg.height > max.height
    THEN [ret |-> "EINVAL", fm |-> fm]
    ELSE configureDevices(fm, sf, cfg, failAt)

\* Mutant: the size check rejects only when both dimensions are too large.
configureStreams_bothTooLarge(fm, sf, max, cfg, failAt) ==
    IF cfg.width % 8 # 0 \/ cfg.height % 4 # 0
    THEN [ret |-> "EINVAL", fm |-> fm]
    ELSE IF cfg.width > max.width /\ cfg.height > max.height
    THEN [ret |-> "EINVAL", fm |-> fm]
    ELSE configureDevices(fm, sf, cfg, failAt)

\* PipelineHandlerIPU3::configureStreams.
configureStreams(fm, sf, max, cfg, failAt) ==
    IF cfg.width % 8 # 0 \/ cfg.height % 4 # 0
    THEN [ret |-> "EINVAL", fm |-> fm]
    ELSE IF cfg.width > max.width \/ cfg.height > max.height
    THEN [ret |-> "EINVAL", fm |-> fm]
    ELSE configureDevices(fm, sf, cfg, failAt)

(***************************************************************************)
(* State.                                                                  *)
(***************************************************************************)
VARIABLES
    state_,                  \* Camera: Available, Acquired, Configured, Running
    sensorFormats,           \* what sensor_->formats(0) enumerates
    maxSize_,                \* CIO2Device::maxSize_ and mbusCode_
    formats,                 \* the format last applied to each device node
    bufferCount_,            \* bufferCount of the stream's configuration
    devStreaming,            \* CIO2 output: streaming
    devBuffers,              \* CIO2 output: buffers exported
    devQueue,                \* CIO2 output: buffers queued, oldest first
    queuedRequests_,         \* CameraData::queuedRequests_
    requests,                \* the Request objects created so far
    nextReq,                 \* the next Request to be created
    completeBuffersCount_,   \* Capture::completeBuffersCount_
    completeRequestsCount_,  \* Capture::completeRequestsCount_
    signals,                 \* every signal the camera emitted, in order
    lastOp,                  \* the last operation and what it returned
    crashed,                 \* the process ended in undefined behaviour
    deadline_,               \* Timer::deadline_, in ns; 0 when not running
    interval_,               \* Timer::interval_, in ms
    timerThread,             \* the thread the Timer object belongs to
    timers,                  \* per thread: the dispatcher holds the timer
    messages,                \* per thread: queued registerTimer invocations
    now,                     \* CLOCK_MONOTONIC, in ns
    ticks,                   \* how often the clock advanced
    timerLog,                \* every Timer call and timeout, in order
    media,                   \* the media devices of the system
    acquired_,               \* per media device: MediaDevice acquired flag
    cio2MediaDev_,           \* per handler: the CIO2 media device, 0 if none
    imguMediaDev_,           \* per handler: the ImgU media device, 0 if none
    handlers,                \* per handler: new, matched, failed, destroyed
    matchOp,                 \* the last match or destruction
    receivers,               \* per CSI-2 receiver: what is connected to it
    cameras                  \* per handler: the cameras it registered

configVars == <<sensorFormats, maxSize_, formats, bufferCount_>>
pipeVars == <<devStreaming, devQueue, queuedRequests_, requests, nextReq,
              completeBuffersCount_, completeRequestsCount_, signals, crashed>>
cameraVars == <<state_, configVars, devBuffers, pipeVars, lastOp>>
timerVars == <<deadline_, interval_, timerThread, timers, messages, now,
               ticks, timerLog>>
matchVars == <<media, acquired_, cio2MediaDev_, imguMediaDev_, handlers,
               matchOp, receivers, cameras>>
vars == <<cameraVars, timerVars, matchVars>>

Range(s) == {s[i] : i \in 1..Len(s)}

\* A Request that was not created yet, and one as createRequest and
\* addBuffer leave it.  The Buffer of a request is named like the request.
\* filled and runEnded are history: the hardware filled the buffer; a stop
\* returned after the request was accepted.
NoRequest ==
    [created |-> FALSE, hasBuffer |-> FALSE, accepted |-> FALSE,
     status |-> "Pending", bufStatus |-> "Pending", pending |-> FALSE,
     filled |-> FALSE, runEnded |-> FALSE]

NewRequest(hasBuffer) ==
    [NoRequest EXCEPT !.created = TRUE, !.hasBuffer = hasBuffer,
                      !.pending = hasBuffer]

(***************************************************************************)
(* The request pipeline.  A handler runs to completion and may call into   *)
(* the application's slots, which call back into the camera; its steps are *)
(* functions over the record S of the state they share.                    *)
(***************************************************************************)
S ==
    [q |-> queuedRequests_, rq |-> requests, next |-> nextReq,
     dq |-> devQueue, streaming |-> devStreaming,
     cb |-> completeBuffersCount_, cr |-> completeRequestsCount_,
     sig |-> signals, crashed |-> crashed]

Commit(s) ==
    /\ queuedRequests_' = s.q
    /\ requests' = s.rq
    /\ nextReq' = s.next
    /\ devQueue' = s.dq
    /\ devStreaming' = s.streaming
    /\ completeBuffersCount_' = s.cb
    /\ completeRequestsCount_' = s.cr
    /\ signals' = s.sig
    /\ crashed' = s.crashed

\* What the application does in its slots: whether requestComplete queues a
\* new request, and whether the device then takes its buffer.
AppChoices == [requeue : BOOLEAN, devOk : BOOLEAN]
NoRequeue == [requeue |-> FALSE, devOk |-> FALSE]

\* V4L2Device::queueBuffer (spec): valid once buffers are exported; the
\* device may refuse the buffer.
V4L2Device_queueBuffer(s, buffer, bufs, devOk) ==
    IF bufs = 0 \/ ~devOk THEN [ret |-> "EIO", s |-> s]
    ELSE [ret |-> "OK",
          s |-> [s EXCEPT !.dq = Append(@, [buf |-> buffer, st |-> "Queued"])]]

\* V4L2Device::streamOff (spec): streaming ends and the device gives up every
\* buffer it holds, filled or not.
V4L2Device_streamOff(s) ==
    [s EXCEPT !.streaming = FALSE, !.dq = <<>>]

\* PipelineHandler::queueRequest (spec): appends to the per-camera FIFO.
PipelineHandler_queueRequest(s, request) ==
    [s EXCEPT !.q = Append(@, request), !.rq[request].accepted = TRUE]

\* Mutant: the request joins the FIFO, its buffer never reaches the device.
queueRequest_noDeviceQueue(s, request, bufs, devOk) ==
    IF ~s.rq[request].hasBuffer THEN [ret |-> "ENOENT", s |-> s]
    ELSE [ret |-> "OK", s |-> PipelineHandler_queueRequest(s, request)]

\* Mutant: the request joins the FIFO whatever the device answered.
queueRequest_ignoreRet(s, request, bufs, devOk) ==
    IF ~s.rq[request].hasBuffer THEN [ret |-> "ENOENT", s |-> s]
    ELSE LET r == V4L2Device_queueBuffer(s, request, bufs, devOk)
         IN [ret |-> r.ret, s |-> PipelineHandler_queueRequest(r.s, request)]

\* PipelineHandlerIPU3::queueRequest.
queueRequest(s, request, bufs, devOk) ==
    IF ~s.rq[request].hasBuffer THEN [ret |-> "ENOENT", s |-> s]
    ELSE LET r == V4L2Device_queueBuffer(s, request, bufs, devOk)
         IN IF r.ret # "OK" THEN r
            ELSE [ret |-> "OK", s |-> PipelineHandler_queueRequest(r.s, request)]

\* Mutant: Camera::queueRequest without the state check.
Camera_queueRequest_anyState(s, hasBuffer, bufs, devOk) ==
    LET request == s.next
        s1 == [s EXCEPT !.next = @ + 1, !.rq[request] = NewRequest(hasBuffer)]
    IN queueRequest(s1, request, bufs, devOk)

\* Camera::queueRequest (spec) of a request the application just created:
\* valid only in Running.
Camera_queueRequest(s, hasBuffer, bufs, devOk) ==
    LET request == s.next
        s1 == [s EXCEPT !.next = @ + 1, !.rq[request] = NewRequest(hasBuffer)]
    IN IF state_ # "Running" THEN [ret |-> "EACCES", s |-> s1]
       ELSE queueRequest(s1, request, bufs, devOk)

\* Capture::bufferComplete.
Capture_bufferComplete(s, request, buffer) ==
    IF s.rq[buffer].bufStatus # "Success" THEN s
    ELSE [s EXCEPT !.cb = @ + 1]

\* Mutant: the slot counts the request and queues no new one.
Capture_requestComplete_noRequeue(s, request, bufs, app) ==
    IF s.rq[request].status # "Complete" THEN s
    ELSE [s EXCEPT !.cr = @ + 1]

\* Capture::requestComplete; an application may also not queue again.
Capture_requestComplete(s, request, bufs, app) ==
    IF s.rq[request].status # "Complete" THEN s
    ELSE LET s1 == [s EXCEPT !.cr = @ + 1]
         IN IF app.requeue
            THEN Camera_queueRequest(s1, TRUE, bufs, app.devOk).s
            ELSE s1

\* PipelineHandler::completeBuffer (spec): emits bufferCompleted and marks
\* the buffer completed in its request.
PipelineHandler_completeBuffer(s, request, buffer) ==
    LET e == [sig |-> "bufferCompleted", req |-> request, buf |-> buffer,
              status |-> s.rq[buffer].bufStatus,
              late |-> s.rq[request].runEnded \/ s.rq[buffer].runEnded]
        s1 == Capture_bufferComplete([s EXCEPT !.sig = Append(@, e)],
                                     request, buffer)
    IN IF buffer = request THEN [s1 EXCEPT !.rq[request].pending = FALSE]
       ELSE s1

\* Camera::requestComplete (spec): emits requestCompleted.
Camera_requestComplete(s, request, bufs, app) ==
    LET e == [sig |-> "requestCompleted", req |-> request, buf |-> request,
              status |-> s.rq[request].status,
              late |-> s.rq[request].runEnded]
    IN Capture_requestComplete([s EXCEPT !.sig = Append(@, e)],
                               request, bufs, app)

\* PipelineHandler::completeRequest (spec): pops the request, gives it its
\* terminal status (Error when a buffer of it failed) and emits
\* requestCompleted.
PipelineHandler_completeRequest(s, request, bufs, app) ==
    LET st == IF s.rq[request].bufStatus = "Error" THEN "Error" ELSE "Complete"
        s1 == [s EXCEPT !.q = IF @ = <<>> THEN @ ELSE Tail(@),
                        !.rq[request].status = st]
    IN Camera_requestComplete(s1, request, bufs, app)

\* Mutant: the request is completed before its buffer.
bufferReady_requestFirst(s, buffer, bufs, app, ub) ==
    LET request == Head(s.q)
    IN PipelineHandler_completeBuffer(
           PipelineHandler_completeRequest(s, request, bufs, NoRequeue),
           request, buffer)

\* Mutant: the newest request is completed, not the oldest.
bufferReady_back(s, buffer, bufs, app, ub) ==
    LET request == s.q[Len(s.q)]
        s1 == PipelineHandler_completeBuffer(s, request, buffer)
        s2 == [s1 EXCEPT !.q = <<request>> \o SubSeq(@, 1, Len(@) - 1)]
    IN PipelineHandler_completeRequest(s2, request, bufs, app)

\* Mutant: the buffer's completion is not reported.
bufferReady_noBuffer(s, buffer, bufs, app, ub) ==
    PipelineHandler_completeRequest(s, Head(s.q), bufs, app)

\* Mutant: the request is reported twice.
bufferReady_twice(s, buffer, bufs, app, ub) ==
    LET request == Head(s.q)
        s1 == PipelineHandler_completeBuffer(s, request, buffer)
        s2 == PipelineHandler_completeRequest(s1, request, bufs, NoRequeue)
    IN Camera_requestComplete([s2 EXCEPT !.q = <<>>], request, bufs, NoRequeue)

\* Mutant: a buffer that failed is dropped.
bufferReady_skipError(s, buffer, bufs, app, ub) ==
    IF s.rq[buffer].bufStatus = "Error" \/ s.q = <<>> THEN s
    ELSE PipelineHandler_completeRequest(
             PipelineHandler_completeBuffer(s, Head(s.q), buffer),
             Head(s.q), bufs, app)

\* IPU3CameraData::bufferReady.  front() of an empty deque is undefined: the
\* process may end (ub = 0) or go on with the stale pointer it reads, a
\* request it completed before (ub).
bufferReady(s, buffer, bufs, app, ub) ==
    IF s.q = <<>>
    THEN IF ub = 0 THEN [s EXCEPT !.crashed = TRUE]
         ELSE PipelineHandler_completeRequest(
                  PipelineHandler_completeBuffer(s, ub, buffer), ub, bufs, app)
    ELSE LET request == Head(s.q)
         IN PipelineHandler_completeRequest(
                PipelineHandler_completeBuffer(s, request, buffer),
                request, bufs, app)

\* PipelineHandler::stop (spec): drains the FIFO; each request's pending
\* buffer is cancelled and reported, then the request is cancelled and
\* reported.
RECURSIVE PipelineHandler_stop(_, _)
PipelineHandler_stop(s, bufs) ==
    IF s.q = <<>> THEN s
    ELSE LET request == Head(s.q)
             s1 == [s EXCEPT !.q = Tail(@)]
             s2 == IF s1.rq[request].pending
                   THEN PipelineHandler_completeBuffer(
                            [s1 EXCEPT !.rq[request].bufStatus = "Cancelled"],
                            request, request)
                   ELSE s1
             s3 == [s2 EXCEPT !.rq[request].status = "Cancelled"]
         IN PipelineHandler_stop(
                Camera_requestComplete(s3, request, bufs, NoRequeue), bufs)

\* Mutant: the device keeps streaming.
stop_noStreamOff(s, bufs) ==
    PipelineHandler_stop(s, bufs)

\* Mutant: the queued requests are left where they are.
stop_noDrain(s, bufs) ==
    V4L2Device_streamOff(s)

\* PipelineHandlerIPU3::stop.  streamOff's result is only logged.
stop(s, bufs) ==
    PipelineHandler_stop(V4L2Device_streamOff(s), bufs)

(***************************************************************************)
(* Inputs.                                                                 *)
(***************************************************************************)
\* The sensor of the camera in the capture runs: one raw Bayer code with two
\* sizes.
CaptureSensor ==
    << [code |-> "SBGGR10_1X10", sizes |-> << <<16, 8>>, <<8, 4>> >>] >>

\* Sensors for the configuration runs: the one above; one with a code the
\* CIO2 cannot consume and two sizes of which neither contains the other;
\* one whose sizes come widest first.
SensorChoices ==
    { CaptureSensor,
      << [code |-> "SGRBG10_1X10", sizes |-> << <<8, 8>>, <<16, 4>> >>],
         [code |-> "UYVY8_2X8", sizes |-> << <<24, 12>> >>] >>,
      << [code |-> "SBGGR10_1X10", sizes |-> << <<16, 4>> >>],
         [code |-> "SRGGB10_1X10", sizes |-> << <<8, 8>> >>] >> }

\* Stream configurations the application asks for: aligned and not, within
\* the sensor's size and beyond it.
CfgWidths == {8, 12, 24}
CfgHeights == {4, 6, 12}
Configs == [width : CfgWidths, height : CfgHeights, bufferCount : {0, BufferCount}]

\* The configurations of the capture runs: a valid one and a misaligned one.
CaptureConfigs ==
    { [width |-> 8, height |-> 4, bufferCount |-> BufferCount],
      [width |-> 12, height |-> 4, bufferCount |-> BufferCount] }

\* Sensors for the selection of the sensor format: one code with one or
\* two sizes, or two codes with one size each, the second consumable by
\* the CIO2 unit or not.
SelectSizes == {<<8, 8>>, <<16, 4>>, <<16, 8>>, <<8, 12>>}

SelectSensors ==
    {<< [code |-> "SBGGR10_1X10", sizes |-> <<a>>] >> : a \in SelectSizes}
    \cup
    {<< [code |-> "SBGGR10_1X10", sizes |-> <<a, b>>] >> :
        a \in SelectSizes, b \in SelectSizes}
    \cup
    {<< [code |-> "SBGGR10_1X10", sizes |-> <<a>>],
        [code |-> c, sizes |-> <<b>>] >> :
        a \in SelectSizes, b \in SelectSizes,
        c \in {"SGRBG10_1X10", "UYVY8_2X8"}}

\* Aligned configurations around those sizes.
SelectConfigs ==
    [width : {8, 16}, height : {4, 8, 12}, bufferCount : {BufferCount}]

\* In the selection runs no device call fails, or the second.
SelectFailPoints == {0, 2}

\* The device call of configureStreams that fails: none, or one of the 12.
FailPoints == 0..12
\* In the capture runs: none, or the first.
CaptureFailPoints == {0, 1}

NoArg == [width |-> 0, height |-> 0, bufferCount |-> 0]
Ret(op, ret) == [op |-> op, ret |-> ret, arg |-> NoArg]

(***************************************************************************)
(* The Camera operations (spec): each validates the state it starts from   *)
(* and returns invalid-state (EACCES) otherwise, then calls the pipeline   *)
(* handler.                                                                *)
(***************************************************************************)
InvalidState(op) ==
    /\ lastOp' = Ret(op, "EACCES")
    /\ UNCHANGED <<state_, configVars, devBuffers, pipeVars>>

Camera_acquire ==
    IF state_ # "Available" THEN InvalidState("acquire")
    ELSE /\ state_' = "Acquired"
         /\ lastOp' = Ret("acquire", "OK")
         /\ UNCHANGED <<configVars, devBuffers, pipeVars>>

Camera_release ==
    /\ state_' = "Available"
    /\ lastOp' = Ret("release", "OK")
    /\ UNCHANGED <<configVars, devBuffers, pipeVars>>

Camera_configure(cfg, failAt) ==
    IF state_ # "Acquired"
    THEN /\ lastOp' = [Ret("configure", "EACCES") EXCEPT !.arg = cfg]
         /\ UNCHANGED <<state_, configVars, devBuffers, pipeVars>>
    ELSE LET r == configureStreams(formats, sensorFormats, maxSize_, cfg, failAt)
         IN /\ formats' = r.fm
            /\ lastOp' = [Ret("configure", r.ret) EXCEPT !.arg = cfg]
            /\ IF r.ret = "OK"
               THEN state_' = "Configured" /\ bufferCount_' = cfg.bufferCount
               ELSE UNCHANGED <<state_, bufferCount_>>
            /\ UNCHANGED <<sensorFormats, maxSize_, devBuffers, pipeVars>>

\* PipelineHandlerIPU3::allocateBuffers; exportBuffers may fail.
allocateBuffers(devOk) ==
    IF bufferCount_ = 0 THEN [ret |-> "EINVAL", bufs |-> devBuffers]
    ELSE IF ~devOk THEN [ret |-> "EIO", bufs |-> devBuffers]
    ELSE [ret |-> "OK", bufs |-> bufferCount_]

Camera_allocateBuffers(devOk) ==
    IF state_ # "Configured" THEN InvalidState("allocateBuffers")
    ELSE LET r == allocateBuffers(devOk)
         IN /\ devBuffers' = r.bufs
            /\ lastOp' = Ret("allocateBuffers", r.ret)
            /\ UNCHANGED <<state_, configVars, pipeVars>>

\* PipelineHandlerIPU3::freeBuffers; releaseBuffers may fail.
freeBuffers(devOk) ==
    IF ~devOk THEN [ret |-> "EIO", bufs |-> devBuffers]
    ELSE [ret |-> "OK", bufs |-> 0]

\* Mutant: Camera::freeBuffers without the state check.
Camera_freeBuffers_anyState(devOk) ==
    LET r == freeBuffers(devOk)
    IN /\ devBuffers' = r.bufs
       /\ lastOp' = Ret("freeBuffers", r.ret)
       /\ UNCHANGED <<state_, configVars, pipeVars>>

Camera_freeBuffers(devOk) ==
    IF state_ # "Configured" THEN InvalidState("freeBuffers")
    ELSE LET r == freeBuffers(devOk)
         IN /\ devBuffers' = r.bufs
            /\ lastOp' = Ret("freeBuffers", r.ret)
            /\ UNCHANGED <<state_, configVars, pipeVars>>

\* V4L2Device::streamOn (spec): needs exported buffers; may fail.
V4L2Device_streamOn(devOk) ==
    IF devBuffers = 0 \/ ~devOk THEN [ret |-> "EIO", streaming |-> devStreaming]
    ELSE [ret |-> "OK", streaming |-> TRUE]

\* PipelineHandlerIPU3::start.
start(devOk) ==
    V4L2Device_streamOn(devOk)

\* Mutant: Camera::start without the state check.
Camera_start_anyState(devOk) ==
    LET r == start(devOk)
    IN /\ devStreaming' = r.streaming
       /\ lastOp' = Ret("start", r.ret)
       /\ state_' = IF r.ret = "OK" THEN "Running" ELSE state_
       /\ UNCHANGED <<configVars, devBuffers, devQueue, queuedRequests_,
                      requests, nextReq, completeBuffersCount_,
                      completeRequestsCount_, signals, crashed>>

\* Camera::start (spec).  Capture::run zeroes its two counters before it
\* calls start.
Camera_start(devOk) ==
    IF state_ # "Configured" THEN InvalidState("start")
    ELSE LET r == start(devOk)
         IN /\ devStreaming' = r.streaming
            /\ lastOp' = Ret("start", r.ret)
            /\ state_' = IF r.ret = "OK" THEN "Running" ELSE state_
            /\ completeBuffersCount_' = 0
            /\ completeRequestsCount_' = 0
            /\ UNCHANGED <<configVars, devBuffers, devQueue, queuedRequests_,
                           requests, nextReq, signals, crashed>>

\* Camera::stop (spec).  The requests accepted so far belong to a run that
\* has ended once stop returns.
Camera_stop ==
    IF state_ # "Running" THEN InvalidState("stop")
    ELSE LET s == stop(S, devBuffers)
         IN /\ Commit([s EXCEPT !.rq = [r \in DOMAIN @ |->
                                   [@[r] EXCEPT !.runEnded = @ \/ s.rq[r].accepted]]])
            /\ state_' = "Configured"
            /\ lastOp' = Ret("stop", "OK")
            /\ UNCHANGED <<configVars, devBuffers>>

(***************************************************************************)
(* The timer (src/libcamera/timer.cpp).  One Timer object lives on one of  *)
(* two threads, each with its event dispatcher.  The dispatcher and the    *)
(* move of an object to another thread are not part of the sources at      *)
(* hand; they follow the specification text and are marked "spec".         *)
(* timerLog records every call and every timeout with the deadline before  *)
(* and after it and the thread the timer belonged to.                      *)
(***************************************************************************)
\* msec * 1000000ULL: nanoseconds in a millisecond.
NsPerMs == 1000000
\* Calls of Timer::start in one behaviour.
MaxArm == 2
\* Moves of the timer to another thread in one behaviour.
MaxMoves == 1
\* Calls of Timer::stop in one behaviour.
MaxStops == 1
\* Advances of the clock in one behaviour.
MaxTicks == 2

Threads == {1, 2}
\* The msec the application starts the timer with.
Intervals == {0, 1}

LogEntry(op, thread, ms, after) ==
    [op |-> op, thread |-> thread, ms |-> ms, deadline |-> deadline_,
     after |-> after, owner |-> timerThread]

Logged(op) == {i \in 1..Len(timerLog) : timerLog[i].op = op}

\* EventDispatcher::registerTimer and unregisterTimer (spec): the
\* dispatcher of a thread owns the set of its timers.
EventDispatcher_registerTimer(ts, thread) == [ts EXCEPT ![thread] = TRUE]

EventDispatcher_unregisterTimer(ts, thread) == [ts EXCEPT ![thread] = FALSE]

\* Timer::registerTimer and Timer::unregisterTimer, on thread().
registerTimer(ts) == EventDispatcher_registerTimer(ts, timerThread)

unregisterTimer(ts) == EventDispatcher_unregisterTimer(ts, timerThread)

\* Mutant: the interval is added without converting it to nanoseconds.
Timer_start_noConversion(msec) ==
    /\ interval_' = msec
    /\ deadline_' = now + msec
    /\ timers' = registerTimer(timers)
    /\ timerLog' = Append(timerLog,
                          LogEntry("start", timerThread, msec, now + msec))
    /\ UNCHANGED <<timerThread, messages, now, ticks>>

\* Timer::start.
Timer_start(msec) ==
    /\ interval_' = msec
    /\ deadline_' = now + msec * NsPerMs
    /\ timers' = registerTimer(timers)
    /\ timerLog' = Append(timerLog,
                          LogEntry("start", timerThread, msec,
                                   now + msec * NsPerMs))
    /\ UNCHANGED <<timerThread, messages, now, ticks>>

\* Timer::stop.
Timer_stop ==
    /\ timers' = unregisterTimer(timers)
    /\ deadline_' = 0
    /\ timerLog' = Append(timerLog, LogEntry("stop", timerThread, 0, 0))
    /\ UNCHANGED <<interval_, timerThread, messages, now, ticks>>

\* Timer::message for a ThreadMoveMessage: a running timer leaves the
\* dispatcher of its thread and queues Timer::registerTimer with
\* invokeMethod, which posts it to the thread the object moves to (spec).
Timer_message(to) ==
    IF deadline_ # 0
    THEN /\ timers' = unregisterTimer(timers)
         /\ messages' = [messages EXCEPT ![to] = @ + 1]
    ELSE UNCHANGED <<timers, messages>>

\* Object::moveToThread (spec): the object is sent the ThreadMoveMessage
\* and then belongs to the new thread.
Object_moveToThread(to) ==
    /\ Timer_message(to)
    /\ timerThread' = to
    /\ timerLog' = Append(timerLog, LogEntry("move", to, 0, deadline_))
    /\ UNCHANGED <<deadline_, interval_, now, ticks>>

\* The dispatcher of `thread` runs one queued invocation (spec), which is
\* Timer::registerTimer.
EventDispatcher_dispatchMessage(thread) ==
    /\ messages[thread] > 0
    /\ messages' = [messages EXCEPT ![thread] = @ - 1]
    /\ timers' = registerTimer(timers)
    /\ timerLog' = Append(timerLog, LogEntry("message", thread, 0, deadline_))
    /\ UNCHANGED <<deadline_, interval_, timerThread, now, ticks>>

\* The dispatcher of `thread` fires the timer (spec): a timer it holds
\* whose deadline has passed leaves the dispatcher, stops running and
\* emits timeout.
EventDispatcher_processTimers(thread) ==
    /\ timers[thread]
    /\ deadline_ <= now
    /\ timers' = EventDispatcher_unregisterTimer(timers, thread)
    /\ deadline_' = 0
    /\ timerLog' = Append(timerLog, LogEntry("timeout", thread, interval_, 0))
    /\ UNCHANGED <<interval_, timerThread, messages, now, ticks>>

TimerInit ==
    /\ deadline_ = 0
    /\ interval_ = 0
    /\ timerThread = 1
    /\ timers = [t \in Threads |-> FALSE]
    /\ messages = [t \in Threads |-> 0]
    /\ now = 1
    /\ ticks = 0
    /\ timerLog = <<>>

(***************************************************************************)
(* Matching (PipelineHandlerIPU3::match).  The system has media devices,   *)
(* each with a driver name and the entities a DeviceMatch asks for or not; *)
(* two IPU3 pipeline handlers are matched against them.  DeviceEnumerator  *)
(* and MediaDevice follow the specification text ("spec").                 *)
(***************************************************************************)
\* Media devices of the system.
NumDevices == 3

Devices == 1..NumDevices
Handlers == {1, 2}
Drivers == {"ipu3-cio2", "ipu3-imgu", "uvcvideo"}

\* A media device: its driver, and whether its entities include every
\* name the handler adds to the DeviceMatch of that driver.
MediaChoices == [Devices -> [driver : Drivers, complete : BOOLEAN]]

\* The media devices of an IPU3.
CaptureMedia ==
    [d \in Devices |->
        [driver |-> IF d = 1 THEN "ipu3-cio2"
                    ELSE IF d = 2 THEN "ipu3-imgu" ELSE "uvcvideo",
         complete |-> TRUE]]

\* Mutant: search hands out a device that is acquired.
DeviceEnumerator_search_busy(driver, acq) ==
    LET found == {d \in Devices :
                     media[d].driver = driver /\ media[d].complete}
    IN IF found = {} THEN 0
       ELSE CHOOSE d \in found : \A e \in found : d <= e

\* DeviceEnumerator::search (spec): the first media device of the driver
\* that has the entities and is not acquired; 0 is the null pointer.
DeviceEnumerator_search(driver, acq) ==
    LET found == {d \in Devices :
                     media[d].driver = driver /\ media[d].complete
                         /\ ~acq[d]}
    IN IF found = {} THEN 0
       ELSE CHOOSE d \in found : \A e \in found : d <= e

(***************************************************************************)
(* Camera registration (PipelineHandlerIPU3::registerCameras).  A CSI-2    *)
(* receiver is described by whether its entity has pads, the function of   *)
(* the source entity of each link of its pad 0, the formats of the sensor  *)
(* and the device call of CIO2Device::init that fails (0: none, 1: the     *)
(* link's setEnabled, 2: the sensor's open, 3: the receiver's open, 4: the *)
(* output's open).                                                         *)
(***************************************************************************)
\* id < 4: the CSI-2 receivers of an IPU3.
NumReceivers == 4
\* numCameras < 2: one camera per ImgU.
MaxCameras == 2

Receivers == 0..(NumReceivers - 1)

\* A sensor that offers only a format the CIO2 unit cannot consume.
YuvSensor == << [code |-> "UYVY8_2X8", sizes |-> << <<24, 12>> >>] >>

Rx(pads, links, sf, fail) ==
    [pads |-> pads, links |-> links, sf |-> sf, fail |-> fail]

\* What may be connected to a receiver: nothing (no pad, or no link), a
\* sensor behind another entity's link, a raw Bayer sensor, a sensor
\* without a raw Bayer format, and a raw Bayer sensor whose link cannot be
\* enabled or whose CIO2 output cannot be opened.
RxKinds ==
    { Rx(FALSE, <<>>, <<>>, 0),
      Rx(TRUE, <<>>, <<>>, 0),
      Rx(TRUE, <<"other", "sensor">>, CaptureSensor, 0),
      Rx(TRUE, <<"sensor">>, CaptureSensor, 0),
      Rx(TRUE, <<"sensor">>, YuvSensor, 0),
      Rx(TRUE, <<"sensor">>, CaptureSensor, 1),
      Rx(TRUE, <<"sensor">>, CaptureSensor, 4) }

Topologies == [Receivers -> RxKinds]

\* An IPU3 with one raw Bayer sensor, at the first receiver.
CaptureReceivers ==
    [id \in Receivers |->
        IF id = 0 THEN Rx(TRUE, <<"sensor">>, CaptureSensor, 0)
        ELSE Rx(TRUE, <<>>, <<>>, 0)]

\* The topologies of the matching runs: the one above, one without any
\* sensor and one with a sensor at every receiver but the first.
MatchReceivers ==
    { CaptureReceivers,
      [id \in Receivers |-> Rx(TRUE, <<>>, <<>>, 0)],
      [id \in Receivers |->
          IF id = 0 THEN Rx(TRUE, <<"sensor">>, YuvSensor, 0)
          ELSE Rx(TRUE, <<"sensor">>, CaptureSensor, 0)] }

\* What a device call that can fail returns (spec: the error codes
\* surfaced at the boundary, of which two are drawn).
DeviceErrors == {"ENODEV", "EBUSY"}
ImguResults == {"OK"} \cup DeviceErrors

\* Mutant: the formats of the sensor are not looked at.
CIO2Device_initReceiver_anyFormat(rx) ==
    IF ~rx.pads THEN "ENODEV"
    ELSE IF rx.links = <<>> THEN "ENODEV"
    ELSE IF rx.links[1] # "sensor" THEN "ENODEV"
    ELSE IF rx.fail # 0 THEN "EIO"
    ELSE "OK"

\* CIO2Device::init as a whole: its return value.
CIO2Device_initReceiver(rx) ==
    IF ~rx.pads THEN "ENODEV"
    ELSE IF rx.links = <<>> THEN "ENODEV"
    ELSE IF rx.links[1] # "sensor" THEN "ENODEV"
    ELSE IF rx.fail \in {1, 2} THEN "EIO"
    ELSE IF CIO2Device_init(rx.sf).ret # "OK" THEN "ENODEV"
    ELSE IF rx.fail \in {3, 4} THEN "EIO"
    ELSE "OK"

\* The loop of registerCameras over the receivers; cams are the cameras
\* registered so far, each with its receiver and its ImgU.
RECURSIVE RegisterLoop(_, _, _)
RegisterLoop(rxs, id, cams) ==
    IF ~(id < NumReceivers /\ Len(cams) < MaxCameras) THEN cams
    ELSE IF CIO2Device_initReceiver(rxs[id]) # "OK"
    THEN RegisterLoop(rxs, id + 1, cams)
    ELSE RegisterLoop(rxs, id + 1,
                      Append(cams, [id |-> id,
                                    imgu |-> IF Len(cams) # 0 THEN 1 ELSE 0]))

\* PipelineHandlerIPU3::registerCameras; imgu0 and imgu1 are what
\* ImgUDevice::init returns for the two instances.
registerCameras(rxs, imgu0, imgu1) ==
    IF imgu0 # "OK" THEN [ret |-> imgu0, cameras |-> <<>>]
    ELSE IF imgu1 # "OK" THEN [ret |-> imgu1, cameras |-> <<>>]
    ELSE LET cams == RegisterLoop(rxs, 0, <<>>)
         IN [ret |-> IF Len(cams) # 0 THEN "OK" ELSE "ENODEV",
             cameras |-> cams]

\* What the devices answer during a match, and the value the
\* uninitialised `ret` happens to compare to 0 as.
\* Answers that differ only in a call the match never gets to make are
\* drawn once: after a call that fails, the later ones are left at success.
MatchInputs ==
    {in \in [openCio2 : BOOLEAN, linksCio2 : BOOLEAN, openImgu : BOOLEAN,
             linksImgu : BOOLEAN, imgu0 : ImguResults, imgu1 : ImguResults,
             uninitialised : BOOLEAN] :
        /\ ~in.openCio2 => in.linksCio2
        /\ ~(in.openCio2 /\ in.linksCio2) => in.openImgu
        /\ ~(in.openCio2 /\ in.linksCio2 /\ in.openImgu) => in.linksImgu
        /\ in.linksImgu => ~in.uninitialised
        /\ ~(in.openCio2 /\ in.linksCio2 /\ in.openImgu /\ in.linksImgu)
              => in.imgu0 = "OK"
        /\ in.imgu0 # "OK" => in.imgu1 = "OK"}

\* The outcome of a match: the value returned, the return statement
\* reached (path), what registerCameras returned if it was called (rc),
\* the cameras registered, the media device pointers and the acquired
\* flags afterwards.
MatchResult(ret, path, rc, cams, cio2, imgu, acq) ==
    [ret |-> ret, path |-> path, rc |-> rc, cameras |-> cams,
     cio2 |-> cio2, imgu |-> imgu, acq |-> acq]

\* PipelineHandlerIPU3::match: the value returned, the two media device
\* pointers and the acquired flags afterwards.
match(in, acq) ==
    LET cio2 == DeviceEnumerator_search("ipu3-cio2", acq)
        acq1 == [acq EXCEPT ![cio2] = TRUE]
        imgu == DeviceEnumerator_search("ipu3-imgu", acq1)
        acq2 == [acq1 EXCEPT ![imgu] = TRUE]
        rc == registerCameras(receivers, in.imgu0, in.imgu1)
    IN IF cio2 = 0
       THEN MatchResult(FALSE, "noCio2", "none", <<>>, 0, 0, acq)
       ELSE IF imgu = 0
       THEN MatchResult(FALSE, "noImgu", "none", <<>>, cio2, 0, acq1)
       ELSE IF ~in.openCio2
       THEN MatchResult(FALSE, "openCio2", "none", <<>>, cio2, imgu, acq2)
       ELSE IF ~in.linksCio2
       THEN MatchResult(FALSE, "linksCio2", "none", <<>>, cio2, imgu, acq2)
       ELSE IF ~in.openImgu
       THEN MatchResult(FALSE, "openImgu", "none", <<>>, cio2, imgu, acq2)
       ELSE IF ~in.linksImgu
       THEN MatchResult(in.uninitialised, "linksImgu", "none", <<>>,
                        cio2, imgu, acq2)
       ELSE MatchResult(rc.ret = "OK", "registerCameras", rc.ret,
                        rc.cameras, cio2, imgu, acq2)

\* What matchOp records of an operation.
MatchOp(op, h, ret, path, rc, imgu0, imgu1) ==
    [op |-> op, handler |-> h, ret |-> ret, path |-> path, rc |-> rc,
     imgu0 |-> imgu0, imgu1 |-> imgu1]

MediaInit(m) ==
    /\ media = m
    /\ acquired_ = [d \in Devices |-> FALSE]
    /\ cio2MediaDev_ = [h \in Handlers |-> 0]
    /\ imguMediaDev_ = [h \in Handlers |-> 0]
    /\ handlers = [h \in Handlers |-> "new"]
    /\ matchOp = MatchOp("init", 0, FALSE, "none", "none", "OK", "OK")

ReceiversInit(t) ==
    /\ receivers = t
    /\ cameras = [h \in Handlers |-> <<>>]

(***************************************************************************)
(* Actions.                                                                *)
(***************************************************************************)
Acquire ==
    /\ ~crashed /\ Camera_acquire
    /\ UNCHANGED <<timerVars, matchVars>>

Release ==
    /\ ~crashed /\ Camera_release
    /\ UNCHANGED <<timerVars, matchVars>>

Configure ==
    /\ ~crashed
    /\ \E cfg \in CaptureConfigs, failAt \in CaptureFailPoints :
          Camera_configure(cfg, failAt)
    /\ UNCHANGED <<timerVars, matchVars>>

ConfigureAny ==
    /\ ~crashed
    /\ \E cfg \in Configs, failAt \in FailPoints : Camera_configure(cfg, failAt)
    /\ UNCHANGED <<timerVars, matchVars>>

ConfigureSelect ==
    /\ ~crashed
    /\ \E cfg \in SelectConfigs, failAt \in SelectFailPoints :
          Camera_configure(cfg, failAt)
    /\ UNCHANGED <<timerVars, matchVars>>

AllocateBuffers ==
    /\ ~crashed /\ \E devOk \in BOOLEAN : Camera_allocateBuffers(devOk)
    /\ UNCHANGED <<timerVars, matchVars>>

FreeBuffers ==
    /\ ~crashed /\ \E devOk \in BOOLEAN : Camera_freeBuffers(devOk)
    /\ UNCHANGED <<timerVars, matchVars>>

Start ==
    /\ ~crashed /\ \E devOk \in BOOLEAN : Camera_start(devOk)
    /\ UNCHANGED <<timerVars, matchVars>>

Stop ==
    /\ ~crashed /\ Camera_stop
    /\ UNCHANGED <<timerVars, matchVars>>

\* The application creates a request, with a buffer for the stream or
\* without, and queues it.
QueueRequest ==
    /\ ~crashed
    /\ nextReq <= MaxReq
    /\ \E hasBuffer \in BOOLEAN, devOk \in BOOLEAN :
          LET r == Camera_queueRequest(S, hasBuffer, devBuffers, devOk)
          IN Commit(r.s) /\ lastOp' = Ret("queueRequest", r.ret)
    /\ UNCHANGED <<state_, configVars, devBuffers, timerVars, matchVars>>

\* The hardware fills the oldest buffer it holds, or fails to.
HwComplete ==
    /\ ~crashed
    /\ devStreaming
    /\ \E i \in 1..Len(devQueue) :
          /\ devQueue[i].st = "Queued"
          /\ \A j \in 1..(i - 1) : devQueue[j].st # "Queued"
          /\ \E st \in {"Success", "Error"} :
                devQueue' = [devQueue EXCEPT ![i].st = st]
          /\ requests' = [requests EXCEPT ![devQueue[i].buf].filled = TRUE]
    /\ lastOp' = Ret("hwComplete", "OK")
    /\ UNCHANGED <<state_, configVars, devBuffers, devStreaming,
                   queuedRequests_, nextReq, completeBuffersCount_,
                   completeRequestsCount_, signals, crashed, timerVars,
                   matchVars>>

\* The dispatcher runs the device's notifier (spec): the filled buffer is
\* dequeued with its status and bufferReady is emitted, which runs
\* IPU3CameraData::bufferReady and the application's slots.
BufferAvailable ==
    /\ ~crashed
    /\ devQueue # <<>>
    /\ Head(devQueue).st # "Queued"
    /\ \E app \in AppChoices, ub \in 0..(nextReq - 1) :
          /\ app.requeue => nextReq <= MaxReq
          /\ LET buffer == Head(devQueue).buf
                 s == [S EXCEPT !.dq = Tail(@),
                                !.rq[buffer].bufStatus = Head(devQueue).st]
             IN Commit(bufferReady(s, buffer, devBuffers, app, ub))
    /\ lastOp' = Ret("bufferReady", "OK")
    /\ UNCHANGED <<state_, configVars, devBuffers, timerVars, matchVars>>

\* The application starts or restarts the timer.
TimerStart ==
    /\ Cardinality(Logged("start")) < MaxArm
    /\ \E msec \in Intervals : Timer_start(msec)
    /\ UNCHANGED <<cameraVars, matchVars>>

\* The application stops the timer.
TimerStop ==
    /\ Cardinality(Logged("stop")) < MaxStops
    /\ Timer_stop
    /\ UNCHANGED <<cameraVars, matchVars>>

\* The timer is moved to the other thread.  What becomes of an invocation
\* still queued when the object moves again is not specified; the object
\* moves when none is queued.
MoveToThread ==
    /\ Cardinality(Logged("move")) < MaxMoves
    /\ \A t \in Threads : messages[t] = 0
    /\ \E to \in Threads \ {timerThread} : Object_moveToThread(to)
    /\ UNCHANGED <<cameraVars, matchVars>>

DispatchMessage ==
    /\ \E t \in Threads : EventDispatcher_dispatchMessage(t)
    /\ UNCHANGED <<cameraVars, matchVars>>

ProcessTimers ==
    /\ \E t \in Threads : EventDispatcher_processTimers(t)
    /\ UNCHANGED <<cameraVars, matchVars>>

\* The clock advances by a millisecond.
Tick ==
    /\ ticks < MaxTicks
    /\ ticks' = ticks + 1
    /\ now' = now + NsPerMs
    /\ UNCHANGED <<deadline_, interval_, timerThread, timers, messages,
                   timerLog, cameraVars, matchVars>>

\* The framework calls match on a handler it has constructed.
Match ==
    /\ \E h \in Handlers, in \in MatchInputs :
          /\ handlers[h] = "new"
          /\ LET r == match(in, acquired_)
             IN /\ acquired_' = r.acq
                /\ cio2MediaDev_' = [cio2MediaDev_ EXCEPT ![h] = r.cio2]
                /\ imguMediaDev_' = [imguMediaDev_ EXCEPT ![h] = r.imgu]
                /\ handlers' = [handlers EXCEPT
                                   ![h] = IF r.ret THEN "matched" ELSE "failed"]
                /\ cameras' = [cameras EXCEPT ![h] = r.cameras]
                /\ matchOp' =
                       IF r.path = "registerCameras"
                       THEN MatchOp("match", h, r.ret, r.path, r.rc,
                                    in.imgu0, in.imgu1)
                       ELSE MatchOp("match", h, r.ret, r.path, r.rc,
                                    "OK", "OK")
    /\ UNCHANGED <<media, receivers, cameraVars, timerVars>>

\* ~PipelineHandlerIPU3: the media devices the handler points to are
\* released (MediaDevice::release (spec) clears the acquired flag).
Destroy ==
    /\ \E h \in Handlers :
          /\ handlers[h] \in {"matched", "failed"}
          /\ acquired_' = [d \in Devices |->
                              IF d \in {cio2MediaDev_[h], imguMediaDev_[h]}
                              THEN FALSE ELSE acquired_[d]]
          /\ cio2MediaDev_' = [cio2MediaDev_ EXCEPT ![h] = 0]
          /\ imguMediaDev_' = [imguMediaDev_ EXCEPT ![h] = 0]
          /\ handlers' = [handlers EXCEPT ![h] = "destroyed"]
          /\ cameras' = [cameras EXCEPT ![h] = <<>>]
          /\ matchOp' = MatchOp("destroy", h, FALSE, "none", "none",
                                 "OK", "OK")
    /\ UNCHANGED <<media, receivers, cameraVars, timerVars>>

\* Capture::run up to start: acquire, configure, allocateBuffers and start,
\* each succeeding in the device.
CaptureSetup ==
    /\ ~crashed
    /\ \/ state_ = "Available" /\ Camera_acquire
       \/ /\ state_ = "Acquired"
          /\ \E cfg \in CaptureConfigs : Camera_configure(cfg, 0)
       \/ state_ = "Configured" /\ devBuffers = 0 /\ Camera_allocateBuffers(TRUE)
       \/ state_ = "Configured" /\ devBuffers > 0 /\ Camera_start(TRUE)
    /\ UNCHANGED <<timerVars, matchVars>>

\* Capture::run queues one request per buffer.
CaptureQueue ==
    /\ ~crashed
    /\ state_ = "Running"
    /\ nextReq <= bufferCount_
    /\ LET r == Camera_queueRequest(S, TRUE, devBuffers, TRUE)
       IN Commit(r.s) /\ lastOp' = Ret("queueRequest", r.ret)
    /\ UNCHANGED <<state_, configVars, devBuffers, timerVars, matchVars>>

\* The hardware fills the oldest buffer it holds.
HwFill ==
    /\ ~crashed
    /\ devStreaming
    /\ \E i \in 1..Len(devQueue) :
          /\ devQueue[i].st = "Queued"
          /\ \A j \in 1..(i - 1) : devQueue[j].st # "Queued"
          /\ devQueue' = [devQueue EXCEPT ![i].st = "Success"]
          /\ requests' = [requests EXCEPT ![devQueue[i].buf].filled = TRUE]
    /\ lastOp' = Ret("hwComplete", "OK")
    /\ UNCHANGED <<state_, configVars, devBuffers, devStreaming,
                   queuedRequests_, nextReq, completeBuffersCount_,
                   completeRequestsCount_, signals, crashed, timerVars,
                   matchVars>>

\* Capture::run drives the dispatcher once its requests are queued; the
\* requestComplete slot queues a new request each time.
CaptureDispatch ==
    /\ ~crashed
    /\ nextReq > bufferCount_
    /\ devQueue # <<>>
    /\ Head(devQueue).st # "Queued"
    /\ LET buffer == Head(devQueue).buf
           s == [S EXCEPT !.dq = Tail(@),
                          !.rq[buffer].bufStatus = Head(devQueue).st]
           app == [requeue |-> nextReq <= SustainedRequests, devOk |-> TRUE]
       IN Commit(bufferReady(s, buffer, devBuffers, app, 0))
    /\ lastOp' = Ret("bufferReady", "OK")
    /\ UNCHANGED <<state_, configVars, devBuffers, timerVars, matchVars>>

\* The state once registerCameras has created the camera of a sensor.
CameraInit(sf) ==
    /\ state_ = "Available"
    /\ sensorFormats = sf
    /\ CIO2Device_init(sf).ret = "OK"
    /\ maxSize_ = CIO2Device_init(sf).max
    /\ formats = [n \in Nodes |-> NoFormat]
    /\ bufferCount_ = 0
    /\ devStreaming = FALSE
    /\ devBuffers = 0
    /\ devQueue = <<>>
    /\ queuedRequests_ = <<>>
    /\ requests = [r \in RequestIds |-> NoRequest]
    /\ nextReq = 1
    /\ completeBuffersCount_ = 0
    /\ completeRequestsCount_ = 0
    /\ signals = <<>>
    /\ lastOp = Ret("init", "OK")
    /\ crashed = FALSE

\* The camera of a sensor, next to an idle timer on the first thread and
\* to the media devices of an IPU3, which no handler has matched yet.
InitWith(sf) ==
    /\ CameraInit(sf)
    /\ TimerInit
    /\ MediaInit(CaptureMedia)
    /\ ReceiversInit(CaptureReceivers)

Init == InitWith(CaptureSensor)

InitConfigure == \E sf \in SensorChoices : InitWith(sf)

Next ==
    \/ Acquire
    \/ Release
    \/ Configure
    \/ AllocateBuffers
    \/ FreeBuffers
    \/ Start
    \/ Stop
    \/ QueueRequest
    \/ HwComplete
    \/ BufferAvailable

\* The camera's life and its request pipeline.
Spec == Init /\ [][Next]_vars

NextConfigure ==
    \/ Acquire
    \/ Release
    \/ ConfigureAny
    \/ AllocateBuffers
    \/ FreeBuffers

\* Configuration and buffer allocation alone, over every sensor, size,
\* buffer count and failing device call.
SpecConfigure == InitConfigure /\ [][NextConfigure]_vars

InitSelect == \E sf \in SelectSensors : InitWith(sf)

NextSelect ==
    \/ Acquire
    \/ Release
    \/ ConfigureSelect

\* Configuration of aligned sizes over sensors with several sizes.
SpecSelect == InitSelect /\ [][NextSelect]_vars

NextSustained ==
    \/ CaptureSetup
    \/ CaptureQueue
    \/ HwFill
    \/ CaptureDispatch

\* The capture test on every sensor, with a device that takes every buffer
\* and fills it, and a dispatcher that keeps running.
SpecSustained ==
    /\ InitConfigure
    /\ [][NextSustained]_vars
    /\ WF_vars(CaptureSetup)
    /\ WF_vars(CaptureQueue)
    /\ WF_vars(HwFill)
    /\ WF_vars(CaptureDispatch)

NextTimer ==
    \/ TimerStart
    \/ TimerStop
    \/ MoveToThread
    \/ DispatchMessage
    \/ ProcessTimers
    \/ Tick

\* The timer, its two threads and their dispatchers.
SpecTimer == Init /\ [][NextTimer]_vars

InitMatch ==
    /\ CameraInit(CaptureSensor)
    /\ TimerInit
    /\ \E m \in MediaChoices : MediaInit(m)
    /\ \E t \in MatchReceivers : ReceiversInit(t)

NextMatch ==
    \/ Match
    \/ Destroy

\* Two handlers matched against every set of media devices.
SpecMatch == InitMatch /\ [][NextMatch]_vars

InitRegister ==
    /\ CameraInit(CaptureSensor)
    /\ TimerInit
    /\ MediaInit(CaptureMedia)
    /\ \E t \in Topologies : ReceiversInit(t)

\* Two handlers matched against the media devices of an IPU3 with every
\* arrangement of sensors at its receivers.
SpecRegister == InitRegister /\ [][NextMatch]_vars

(***************************************************************************)
(* Properties.  Requests are numbered in the order the application queues  *)
(* them, so the order of queueRequest is the order of the numbers.         *)
(***************************************************************************)
\* One stream per camera: registerCameras creates each camera with stream_.
StreamsPerRequest == 1

RequestCompletedAt(i) == signals[i].sig = "requestCompleted"

\* How often requestCompleted was emitted for request r.
Completions(r) ==
    Cardinality({i \in 1..Len(signals) :
                     RequestCompletedAt(i) /\ signals[i].req = r})

\* The signals an operation emitted.
Emitted == SubSeq(signals', Len(signals) + 1, Len(signals'))

\* C1: requestCompleted is emitted in the order of queueRequest: completions
\* come in increasing queue order, every request still queued was queued
\* after every completed one (the head is what completes), and the FIFO is
\* in queue order (a request is appended at the tail).
C1_FifoCompletionOrder ==
    /\ \A i, j \in 1..Len(signals) :
          (i < j /\ RequestCompletedAt(i) /\ RequestCompletedAt(j))
              => signals[i].req < signals[j].req
    /\ \A i \in 1..Len(signals) : \A r \in Range(queuedRequests_) :
          RequestCompletedAt(i) => signals[i].req < r
    /\ \A i, j \in 1..Len(queuedRequests_) :
          i < j => queuedRequests_[i] < queuedRequests_[j]

\* Two requests of one run completed one after the other while a third is
\* queued behind them.
C1_Witness ==
    /\ state_ = "Running"
    /\ queuedRequests_ # <<>>
    /\ \E i, j \in 1..Len(signals) :
          /\ i < j
          /\ RequestCompletedAt(i) /\ signals[i].status = "Complete"
          /\ RequestCompletedAt(j) /\ signals[j].status = "Complete"
          /\ ~requests[signals[i].req].runEnded

\* C2: every requestCompleted follows the bufferCompleted of the request's
\* buffer, and no request with a terminal status has a buffer still pending.
C2_BufferBeforeRequest ==
    /\ \A i \in 1..Len(signals) :
          RequestCompletedAt(i) =>
              \E j \in 1..(i - 1) :
                  /\ signals[j].sig = "bufferCompleted"
                  /\ signals[j].req = signals[i].req
                  /\ signals[j].buf = signals[i].req
    /\ \A r \in 1..MaxReq :
          requests[r].status # "Pending" => ~requests[r].pending

\* A request completed by the hardware and one cancelled by stop.
C2_Witness ==
    /\ \E i \in 1..Len(signals) :
          RequestCompletedAt(i) /\ signals[i].status = "Complete"
    /\ \E i \in 1..Len(signals) :
          RequestCompletedAt(i) /\ signals[i].status = "Cancelled"

C4_CountersPair ==
    completeBuffersCount_ = completeRequestsCount_ * StreamsPerRequest

\* Two requests counted in a window in which a buffer also failed.
C4_Witness ==
    /\ completeRequestsCount_ >= 2
    /\ \E i \in 1..Len(signals) :
          signals[i].sig = "bufferCompleted" /\ signals[i].status = "Error"

\* C5: stop empties the FIFO and, for each request that was queued, in FIFO
\* order, emits bufferCompleted with the buffer Cancelled and then
\* requestCompleted with the request Cancelled, and nothing else.
C5_StopDrains ==
    [][(lastOp'.op = "stop" /\ lastOp'.ret = "OK") =>
          /\ queuedRequests_' = <<>>
          /\ Len(signals') = Len(signals) + 2 * Len(queuedRequests_)
          /\ \A k \in 1..Len(queuedRequests_) :
                LET r == queuedRequests_[k]
                    b == Emitted[2 * k - 1]
                    e == Emitted[2 * k]
                IN /\ b.sig = "bufferCompleted" /\ b.req = r /\ b.buf = r
                   /\ b.status = "Cancelled"
                   /\ e.sig = "requestCompleted" /\ e.req = r
                   /\ e.status = "Cancelled"
                   /\ requests'[r].status = "Cancelled"
                   /\ requests'[r].bufStatus = "Cancelled"]_vars

\* stop has just cancelled two requests, one of them with its buffer already
\* filled by the hardware.
C5_Witness ==
    /\ lastOp.op = "stop" /\ lastOp.ret = "OK"
    /\ Len(signals) >= 4
    /\ \A k \in 0..3 : signals[Len(signals) - k].status = "Cancelled"
    /\ \E k \in 0..3 : requests[signals[Len(signals) - k].req].filled

C7_QueueOnlyWhileRunning ==
    [][/\ (lastOp'.op = "queueRequest" /\ state_ # "Running") =>
              /\ lastOp'.ret = "EACCES"
              /\ devQueue' = devQueue
              /\ queuedRequests_' = queuedRequests_
       /\ \A r \in 1..MaxReq :
              (requests'[r].accepted /\ ~requests[r].accepted)
                  => state_ = "Running"]_vars

\* queueRequest was refused after a stop, with buffers still allocated.
C7_Witness ==
    /\ lastOp.op = "queueRequest" /\ lastOp.ret = "EACCES"
    /\ state_ = "Configured" /\ devBuffers > 0
    /\ \E r \in 1..MaxReq : requests[r].runEnded

Transition(from, to, op) ==
    state_ = from /\ state_' = to /\ lastOp'.op = op /\ lastOp'.ret = "OK"

WrongState ==
    \/ lastOp'.op = "acquire" /\ state_ # "Available"
    \/ lastOp'.op = "configure" /\ state_ # "Acquired"
    \/ lastOp'.op \in {"allocateBuffers", "freeBuffers", "start"}
           /\ state_ # "Configured"
    \/ lastOp'.op \in {"stop", "queueRequest"} /\ state_ # "Running"

\* C8: the camera state changes only along the five transitions, each by
\* its operation succeeding; an operation called in any other state returns
\* invalid-state and leaves the camera state, the device formats and the
\* ingress device as they were (so a start while Running does not stream
\* the device on again).
C8_StateMachine ==
    [][/\ state_' # state_ =>
              \/ Transition("Available", "Acquired", "acquire")
              \/ Transition("Acquired", "Configured", "configure")
              \/ Transition("Configured", "Running", "start")
                     /\ devBuffers > 0 /\ devStreaming'
              \/ Transition("Running", "Configured", "stop")
              \/ state_' = "Available" /\ lastOp'.op = "release"
       /\ WrongState =>
              /\ lastOp'.ret = "EACCES"
              /\ UNCHANGED <<state_, formats, devStreaming, devBuffers,
                             devQueue>>
       /\ lastOp'.ret = "EACCES" => WrongState]_vars

\* A second start while Running was refused.
C8_Witness ==
    /\ lastOp.op = "start" /\ lastOp.ret = "EACCES"
    /\ state_ = "Running" /\ devStreaming

Misaligned(cfg) == cfg.width % 8 # 0 \/ cfg.height % 4 # 0

\* C9: configure of an acquired camera with a misaligned size returns
\* invalid-argument and changes neither a device format nor the camera
\* state.
C9_MisalignedRejected ==
    [][(lastOp'.op = "configure" /\ state_ = "Acquired"
            /\ Misaligned(lastOp'.arg)) =>
          /\ lastOp'.ret = "EINVAL"
          /\ formats' = formats
          /\ state_' = state_]_vars

\* A size misaligned in its height only was rejected on a camera whose
\* devices hold the formats of an earlier configuration.
C9_Witness ==
    /\ lastOp.op = "configure" /\ lastOp.ret = "EINVAL"
    /\ lastOp.arg.width % 8 = 0 /\ lastOp.arg.height % 4 # 0
    /\ state_ = "Acquired"
    /\ formats["sensor"] # NoFormat

TooLarge(cfg) == cfg.width > maxSize_.width \/ cfg.height > maxSize_.height

\* C10: configure of an acquired camera with a width or a height above
\* maxSize_ returns invalid-argument and changes no device format.
C10_OversizeRejected ==
    [][(lastOp'.op = "configure" /\ state_ = "Acquired"
            /\ TooLarge(lastOp'.arg)) =>
          /\ lastOp'.ret = "EINVAL"
          /\ formats' = formats
          /\ state_' = state_]_vars

\* An aligned size too wide but not too high was rejected.
C10_Witness ==
    /\ lastOp.op = "configure" /\ lastOp.ret = "EINVAL"
    /\ ~Misaligned(lastOp.arg)
    /\ lastOp.arg.width > maxSize_.width
    /\ lastOp.arg.height <= maxSize_.height
    /\ state_ = "Acquired"

(***************************************************************************)
(* Properties of the timer, read off timerLog.                             *)
(***************************************************************************)
Registered == {t \in Threads : timers[t]}

\* No Timer::start is logged strictly between entries i and j.
NoStartBetween(i, j) ==
    \A k \in (i + 1)..(j - 1) : timerLog[k].op # "start"

\* C11: once stop has returned, timeout is not emitted until the timer is
\* started again.
C11_NoTimeoutAfterStop ==
    \A i, j \in 1..Len(timerLog) :
        (i < j /\ timerLog[i].op = "stop" /\ timerLog[j].op = "timeout")
            => ~NoStartBetween(i, j)

\* C12: a running timer is held by exactly one dispatcher and a timer that
\* is not running by none.
C12_RegisteredIffRunning ==
    /\ deadline_ # 0 => Cardinality(Registered) = 1
    /\ deadline_ = 0 => Registered = {}

\* No Timer::stop is logged strictly between entries i and j.
NoStopBetween(i, j) ==
    \A k \in (i + 1)..(j - 1) : timerLog[k].op # "stop"

\* C13: after a start of a running timer the timer is held by one
\* dispatcher, and until the next start or stop at most one timeout is
\* emitted, by the running timer with the new deadline.
C13_RestartOnce ==
    \A i \in 1..Len(timerLog) :
        (timerLog[i].op = "start" /\ timerLog[i].deadline # 0) =>
            /\ i = Len(timerLog) => Cardinality(Registered) = 1
            /\ \A j \in (i + 1)..Len(timerLog) :
                  (timerLog[j].op = "timeout" /\ NoStartBetween(i, j)
                       /\ NoStopBetween(i, j)) =>
                      /\ timerLog[j].deadline = timerLog[i].after
                      /\ \A k \in (i + 1)..(j - 1) :
                            timerLog[k].op # "timeout"

\* C14: start(ms) sets a deadline of at least now + ms and makes the timer
\* running; a running timer stops running only by stop or by its timeout,
\* emitted once the deadline has passed, both leave it not running, and
\* only start makes it running again.
C14_RunningUntilTimeoutOrStop ==
    [][LET grew == Len(timerLog') = Len(timerLog) + 1
           e == timerLog'[Len(timerLog')]
       IN /\ (grew /\ e.op = "start") =>
                 /\ deadline_' >= now + e.ms * NsPerMs
                 /\ deadline_' # 0
          /\ (deadline_ # 0 /\ deadline_' = 0) =>
                 /\ grew
                 /\ e.op = "stop" \/ (e.op = "timeout" /\ deadline_ <= now)
          /\ (deadline_ = 0 /\ deadline_' # 0) => (grew /\ e.op = "start")
          /\ (grew /\ e.op \in {"stop", "timeout"}) => deadline_' = 0]_vars

\* A timer started with one millisecond timed out, after the clock had
\* advanced, and is not running.
C14_Witness ==
    /\ timerLog # <<>>
    /\ timerLog[Len(timerLog)].op = "timeout"
    /\ timerLog[Len(timerLog)].deadline > NsPerMs
    /\ timerLog[Len(timerLog)].ms = 1
    /\ deadline_ = 0

\* The entries after the move logged at i that belong to what the move
\* left running: up to the next stop, move, or start of an idle timer.
AfterMove(i) ==
    {j \in (i + 1)..Len(timerLog) :
        \A k \in (i + 1)..j :
            /\ timerLog[k].op \notin {"stop", "move"}
            /\ timerLog[k].op = "start" => timerLog[k].deadline # 0}

\* C15: a move of a running timer keeps it running, takes it from the old
\* thread's dispatcher and registers it on the new thread by a queued
\* invocation only; afterwards timeout is emitted on the new thread only,
\* and once.
C15_MoveFiresOnceOnNewThread ==
    \A i \in 1..Len(timerLog) :
        (timerLog[i].op = "move" /\ timerLog[i].deadline # 0) =>
            /\ timerLog[i].after = timerLog[i].deadline
            /\ \A j \in AfterMove(i) :
                  timerLog[j].op = "timeout" =>
                      /\ timerLog[j].thread = timerLog[i].thread
                      /\ \A k \in AfterMove(i) :
                            timerLog[k].op = "timeout" => k = j

(***************************************************************************)
(* Properties of matching.                                                 *)
(***************************************************************************)
\* The handlers that hold media device d.
Holders(d) ==
    {h \in Handlers : handlers[h] # "destroyed"
                          /\ d \in {cio2MediaDev_[h], imguMediaDev_[h]}}

\* No media device of the driver with the entities is free.
NoneFree(driver) ==
    \A d \in Devices :
        (media[d].driver = driver /\ media[d].complete) => acquired_[d]

\* C16: a media device is held by at most one handler, and is then
\* acquired; a match never takes a device that is acquired, and when every
\* device it needs of one kind is acquired it returns false, acquiring
\* nothing if that kind is the first it searches.
C16_ExclusiveMedia ==
    /\ [](\A d \in Devices :
              /\ Cardinality(Holders(d)) <= 1
              /\ Holders(d) # {} => acquired_[d])
    /\ [][matchOp'.op = "match" =>
            LET h == matchOp'.handler
            IN /\ \A d \in Devices :
                     acquired_[d] =>
                         d \notin {cio2MediaDev_'[h], imguMediaDev_'[h]}
               /\ (NoneFree("ipu3-cio2") \/ NoneFree("ipu3-imgu")) =>
                     ~matchOp'.ret
               /\ NoneFree("ipu3-cio2") =>
                     /\ acquired_' = acquired_
                     /\ cio2MediaDev_'[h] = 0 /\ imguMediaDev_'[h] = 0]_vars

\* The second handler's match returned false, without a device, while the
\* first holds the two media devices it matched.
C16_Witness ==
    /\ matchOp.op = "match" /\ ~matchOp.ret
    /\ \E h \in Handlers :
          /\ h # matchOp.handler
          /\ handlers[h] = "matched"
          /\ cio2MediaDev_[h] # 0 /\ imguMediaDev_[h] # 0
    /\ cio2MediaDev_[matchOp.handler] = 0
    /\ imguMediaDev_[matchOp.handler] = 0

(***************************************************************************)
(* Properties of the sustained capture.                                    *)
(***************************************************************************)
\* C17: in the sustained capture no more than bufferCount requests are in
\* flight, in the FIFO or at the device, and the number of completed
\* requests eventually exceeds twice bufferCount.
C17_SustainedProgress ==
    /\ [](/\ Len(queuedRequests_) <= bufferCount_
          /\ Len(devQueue) <= bufferCount_)
    /\ <>(bufferCount_ > 0 /\ completeRequestsCount_ > 2 * bufferCount_)

\* More than twice bufferCount requests completed, with as many buffers,
\* and bufferCount requests are in flight.
C17_Witness ==
    /\ bufferCount_ > 0
    /\ completeRequestsCount_ > 2 * bufferCount_
    /\ completeBuffersCount_ = completeRequestsCount_
    /\ Len(queuedRequests_) = bufferCount_

C19_ErrorAdvancesFifo ==
    [][(lastOp'.op = "bufferReady" /\ queuedRequests_ # <<>>
            /\ Head(devQueue).st = "Error") =>
          LET r == Head(queuedRequests_)
          IN /\ Len(signals') >= Len(signals) + 2
             /\ Emitted[1].sig = "bufferCompleted" /\ Emitted[1].req = r
             /\ Emitted[1].buf = Head(devQueue).buf
             /\ Emitted[1].status = "Error"
             /\ Emitted[2].sig = "requestCompleted" /\ Emitted[2].req = r
             /\ Emitted[2].status = "Error"
             /\ requests'[r].status = "Error"
             /\ r \notin Range(queuedRequests_')
             /\ Len(queuedRequests_') >= Len(queuedRequests_) - 1
             /\ \A i \in 1..(Len(queuedRequests_) - 1) :
                   queuedRequests_'[i] = queuedRequests_[i + 1]
             /\ devQueue' = Tail(devQueue)]_vars

\* In one run a request completed with Error and the request queued after
\* it completed with its buffer filled.
C19_Witness ==
    \E i, j \in 1..Len(signals) :
        /\ i < j
        /\ RequestCompletedAt(i) /\ signals[i].status = "Error"
        /\ RequestCompletedAt(j) /\ signals[j].status = "Complete"
        /\ signals[j].req = signals[i].req + 1
        /\ ~requests[signals[j].req].runEnded

(***************************************************************************)
(* Properties of the selection of the sensor format.                       *)
(***************************************************************************)
\* The sizes CIO2Device::configure may select for cfg: those of a code the
\* CIO2 unit consumes, at least as wide and as high as cfg.
Candidates(flat, cfg) ==
    {i \in 1..Len(flat) :
        /\ mediaBusToFormat(flat[i].code) # "EINVAL"
        /\ flat[i].maxWidth >= cfg.width
        /\ flat[i].maxHeight >= cfg.height}

\* By how much the area of a size exceeds the area of cfg.
Excess(s, cfg) == s.maxWidth * s.maxHeight - cfg.width * cfg.height

\* Candidate i has the least excess and is the first to have it.
IsBest(flat, cfg, i) ==
    /\ i \in Candidates(flat, cfg)
    /\ \A j \in Candidates(flat, cfg) :
          \/ Excess(flat[i], cfg) < Excess(flat[j], cfg)
          \/ Excess(flat[i], cfg) = Excess(flat[j], cfg) /\ i <= j

\* C20: a configure of an acquired camera with an accepted size has a
\* candidate, the sensor gets no format but the best candidate's, and when
\* configure succeeds the sensor and the CSI-2 receiver hold that format
\* and the CIO2 output its size with the matching pixel format.
C20_SelectsLeastExcess ==
    [][(lastOp'.op = "configure" /\ state_ = "Acquired"
            /\ ~Misaligned(lastOp'.arg) /\ ~TooLarge(lastOp'.arg)) =>
          LET flat == Flat(sensorFormats)
              cfg == lastOp'.arg
          IN \E i \in 1..Len(flat) :
                LET best == Fmt(flat[i].maxWidth, flat[i].maxHeight,
                                flat[i].code)
                IN /\ IsBest(flat, cfg, i)
                   /\ formats'["sensor"] \in {formats["sensor"], best}
                   /\ lastOp'.ret = "OK" =>
                         /\ formats'["sensor"] = best
                         /\ formats'["csi2"] = best
                         /\ formats'["cio2"] =
                                Fmt(best.width, best.height,
                                    mediaBusToFormat(best.code))]_vars

\* configure succeeded where two sizes exceed the request by the same
\* least area and a third size is too small: the sensor has the first.
C20_Witness ==
    /\ lastOp.op = "configure" /\ lastOp.ret = "OK"
    /\ LET flat == Flat(sensorFormats)
           cfg == lastOp.arg
       IN /\ \E i, j \in Candidates(flat, cfg) :
                /\ i < j
                /\ IsBest(flat, cfg, i)
                /\ Excess(flat[i], cfg) = Excess(flat[j], cfg)
                /\ flat[i].maxWidth # flat[j].maxWidth
                /\ formats["sensor"].width = flat[i].maxWidth
          /\ formats["sensor"].width = lastOp.arg.width
             \/ formats["sensor"].height = lastOp.arg.height

C23_FailedQueueLeavesFifo ==
    [][lastOp'.op = "queueRequest" =>
          IF lastOp'.ret = "OK"
          THEN /\ queuedRequests_' = Append(queuedRequests_, nextReq)
               /\ devQueue' = Append(devQueue,
                                     [buf |-> nextReq, st |-> "Queued"])
               /\ requests'[nextReq].hasBuffer
          ELSE /\ queuedRequests_' = queuedRequests_
               /\ devQueue' = devQueue
               /\ lastOp'.ret \in {"ENOENT", "EIO", "EACCES"}
               /\ (state_ = "Running" /\ ~requests'[nextReq].hasBuffer)
                      => lastOp'.ret = "ENOENT"]_vars

\* The device refused the buffer of a request while the camera was running
\* and another request was queued.
C23_Witness ==
    /\ lastOp.op = "queueRequest" /\ lastOp.ret = "EIO"
    /\ state_ = "Running"
    /\ devBuffers > 0
    /\ queuedRequests_ # <<>>
    /\ requests[nextReq - 1].hasBuffer
    /\ ~requests[nextReq - 1].accepted

\* The request without a buffer was refused with -ENOENT.
C23_WitnessNoBuffer ==
    /\ lastOp.op = "queueRequest" /\ lastOp.ret = "ENOENT"
    /\ queuedRequests_ # <<>>

(***************************************************************************)
(* Properties of the registration of cameras.                              *)
(***************************************************************************)
\* The sensor offers a format the CIO2 unit consumes.
HasIspFormat(sf) ==
    \E i \in 1..Len(Flat(sf)) : mediaBusToFormat(Flat(sf)[i].code) # "EINVAL"

\* The receiver's sink pad has a link that comes from a camera sensor, and
\* the sensor offers a format the CIO2 unit consumes.
Qualifies(rx) ==
    /\ rx.pads
    /\ \E i \in 1..Len(rx.links) : rx.links[i] = "sensor"
    /\ HasIspFormat(rx.sf)

\* The first link of the receiver's sink pad comes from a camera sensor,
\* the sensor offers a format the CIO2 unit consumes and no device call of
\* CIO2Device::init fails.
InitSucceeds(rx) ==
    /\ rx.pads
    /\ rx.links # <<>> /\ rx.links[1] = "sensor"
    /\ HasIspFormat(rx.sf)
    /\ rx.fail = 0

\* The receivers that get a camera when those of `good` can have one: the
\* first MaxCameras of them.
FirstOf(good) ==
    {id \in good : Cardinality({j \in good : j < id}) < MaxCameras}

\* cams has one camera for each receiver of ids, in increasing order of
\* the receivers, the first on imgu0 and the second on imgu1.
CamerasAre(cams, ids) ==
    /\ {cams[i].id : i \in 1..Len(cams)} = ids
    /\ \A i, j \in 1..Len(cams) : i < j => cams[i].id < cams[j].id
    /\ Len(cams) <= MaxCameras
    /\ \A i \in 1..Len(cams) : cams[i].imgu = i - 1

\* A match has just called registerCameras.
Registering == matchOp'.op = "match" /\ matchOp'.path = "registerCameras"

C24_MatchTrueOnlyIfRegistered ==
    matchOp.op = "match" =>
        LET h == matchOp.handler
        IN /\ matchOp.ret =>
                 /\ cio2MediaDev_[h] # 0 /\ acquired_[cio2MediaDev_[h]]
                 /\ imguMediaDev_[h] # 0 /\ acquired_[imguMediaDev_[h]]
                 /\ matchOp.path = "registerCameras"
                 /\ matchOp.rc = "OK"
           /\ matchOp.path = "linksImgu" => ~matchOp.ret
           /\ ~matchOp.ret => cameras[h] = <<>>

\* C25: when configureStreams has accepted the alignment and the size of a
\* request, a size of the sensor qualifies for it, so the format selected
\* is not the zero-initialised one, and no zero format is applied to the
\* sensor, the CSI-2 receiver or the CIO2 output.
C25_SelectedFormatNotZero ==
    [][(lastOp'.op = "configure" /\ state_ = "Acquired"
            /\ ~Misaligned(lastOp'.arg) /\ ~TooLarge(lastOp'.arg)) =>
          /\ Candidates(Flat(sensorFormats), lastOp'.arg) # {}
          /\ SelectSensorFormat(sensorFormats, lastOp'.arg) # NoFormat
          /\ \A n \in {"sensor", "csi2", "cio2"} :
                formats'[n] # formats[n] =>
                    /\ formats'[n].width > 0
                    /\ formats'[n].height > 0
                    /\ formats'[n].code \notin {"0", "EINVAL"}
          /\ formats'["sensor"].width > 0]_vars

\* A request as large as the cached maximum size was configured on a
\* sensor that has a size wider or higher than that maximum.
C25_Witness ==
    /\ lastOp.op = "configure" /\ lastOp.ret = "OK"
    /\ lastOp.arg.width = maxSize_.width
    /\ lastOp.arg.height = maxSize_.height
    /\ \E i \in 1..Len(Flat(sensorFormats)) :
          /\ mediaBusToFormat(Flat(sensorFormats)[i].code) # "EINVAL"
          /\ \/ Flat(sensorFormats)[i].maxWidth > maxSize_.width
             \/ Flat(sensorFormats)[i].maxHeight > maxSize_.height
    /\ formats["sensor"].width = maxSize_.width
    /\ formats["sensor"].height = maxSize_.height

(***************************************************************************)
(* Properties of the maximum size.                                         *)
(***************************************************************************)
\* C26: an aligned request is rejected as larger than the sensor's
\* resolution only if no size of a code the CIO2 unit consumes is at least
\* as wide and as high as the request.
C26_RejectedOnlyIfNoSizeFits ==
    [][(lastOp'.op = "configure" /\ state_ = "Acquired"
            /\ ~Misaligned(lastOp'.arg) /\ lastOp'.ret = "EINVAL") =>
          Candidates(Flat(sensorFormats), lastOp'.arg) = {}]_vars

=============================================================================
